---- MODULE Spec2Model ----
(***************************************************************************)
(* Nyxora Proof-of-Quantum: hexagonal circuit construction, proof          *)
(* generation (generate_quantum_proof, simulate_quantum_proof) and proof   *)
(* verification (QuantumSimulator.verify_simulation; the replay-protected  *)
(* QuantumProofVerifier.verify_proof, whose module quantum/verifier is     *)
(* only imported by the tests and is modelled from spec section 4.6).      *)
(*                                                                         *)
(* Text model.  A Python str is a sequence of characters.  A character is  *)
(* a 5-tuple <<kind, sub, idx, a, b>>; a JSON member or scalar is kept as  *)
(* one such tuple, a decimal digit as <<"digit", "", 0, d, 0>>.            *)
(* Lattice coordinates are exact pairs (a, b) standing for the point       *)
(* (a/2, b*sqrt(3)/2).                                                     *)
(***************************************************************************)
EXTENDS Integers, Sequences, FiniteSets, TLC

\* ------------------------------------------------------------------ bounds
\* largest qubit budget / difficulty level handed to the proof generators
MaxBudget == 3
MaxLevel == 1
\* number of leading measurement bits the backend may set freely
MaxFreeBits == 2
\* wall-clock readings available to one run
MaxClock == 2
\* qubit_count values (1..MaxCraftQ) and measurement lengths (0..MaxCraftQ) of
\* an attacker-crafted proof
MaxCraftQ == 2
\* verification calls made on one verifier
MaxCalls == 3
\* free backend bits in the runs that share one verifier
ReplayFreeBits == 1
\* threads calling verify_proof on one verifier
NumThreads == 2
\* inputs of the difficulty mapping and of direct circuit construction
MapMaxBudget == 27
MapMaxLevel == 2
MaxLayers == 5
\* layers of the circuits encoded again and again
EncLayers == 1

\* -------------------------------------------------------------------- text
Tok(kind, sub, idx, a, b) == <<kind, sub, idx, a, b>>

Sym(kind) == Tok(kind, "", 0, 0, 0)

Digit(d) == Tok("digit", "", 0, d, 0)

\* str(x) for a one-digit integer x
PyStr(x) == <<Digit(x)>>

\* int(c) for a digit character c
PyInt(c) == c[4]

\* ''.join(map(str, xs))
RECURSIVE JoinStr(_)
JoinStr(xs) == IF xs = <<>> THEN <<>> ELSE PyStr(Head(xs)) \o JoinStr(Tail(xs))

BitsOfStrReversed(s) == [i \in 1..Len(s) |-> PyInt(s[Len(s) + 1 - i])]

\* [int(bit) for bit in s]
BitsOfStr(s) == [i \in 1..Len(s) |-> PyInt(s[i])]

\* hashlib.sha256(text.encode()).hexdigest(): collision-free, never empty
Sha256Hex(text) == <<Sym("sha256")>> \o text

\* ------------------------------------------ HexagonalQuantumCircuit object
CalculateQubitCountOffByOne(layers) == 1 + 3 * layers * (layers + 1)

CalculateQubitCount(layers) ==
    IF layers = 0 THEN 1 ELSE 1 + 3 * (layers - 1) * layers

\* cos and sin of side*pi/3 in units of (1/2, sqrt(3)/2)
CornerDir(side) ==
    CASE side = 0 -> <<2, 0>>
      [] side = 1 -> <<1, 1>>
      [] side = 2 -> <<-1, 1>>
      [] side = 3 -> <<-2, 0>>
      [] side = 4 -> <<-1, -1>>
      [] side = 5 -> <<1, -1>>

\* the per-side adjustment added for one step of pos (lines 91-106)
EdgeDir(side) ==
    CASE side = 0 -> <<1, 1>>
      [] side = 1 -> <<2, 0>>
      [] side = 2 -> <<1, -1>>
      [] side = 3 -> <<-1, -1>>
      [] side = 4 -> <<-2, 0>>
      [] side = 5 -> <<-1, -1>>

HexPosition(layer, side, pos) ==
    <<layer * CornerDir(side)[1] + pos * EdgeDir(side)[1],
      layer * CornerDir(side)[2] + pos * EdgeDir(side)[2]>>

SidePositionsWithCorner(layer, side) ==
    [i \in 1..(layer + 1) |-> HexPosition(layer, side, i - 1)]

\* the innermost loop: the positions along one side, pos = 0..layer-1
SidePositions(layer, side) == [i \in 1..layer |-> HexPosition(layer, side, i - 1)]

\* the loop over the six sides of one ring
RingPositions(layer) ==
    SidePositions(layer, 0) \o SidePositions(layer, 1) \o SidePositions(layer, 2)
    \o SidePositions(layer, 3) \o SidePositions(layer, 4) \o SidePositions(layer, 5)

\* the loop over range(1, layers); acc[i+1] is qubit_positions[i], and
\* qubit_idx = Len(acc)
RECURSIVE HexLoop(_, _, _)
HexLoop(layers, layer, acc) ==
    IF layer >= layers THEN acc
    ELSE HexLoop(layers, layer + 1, acc \o RingPositions(layer))

GenerateHexStructure(layers) ==
    [qubit_positions |-> HexLoop(layers, 1, << <<0, 0>> >>),
     connections |-> <<>>]

\* HexagonalQuantumCircuit(layers, qubits_per_side): registers qr and cr of
\* qubit_count bits each, an empty gate list, the lattice
NewCircuit(layers) ==
    [layers |-> layers,
     qubit_count |-> CalculateQubitCount(layers),
     qr |-> CalculateQubitCount(layers),
     cr |-> CalculateQubitCount(layers),
     gates |-> <<>>,
     hex_structure |-> GenerateHexStructure(layers)]

HadamardLayer(n) == [i \in 1..n |-> <<"h", i - 1, i - 1>>]

AddCnotLayerClosed(n) == [i \in 1..n |-> <<"cx", i - 1, i % n>>]

AddCnotLayer(n) == [i \in 1..(n - 1) |-> <<"cx", i - 1, i>>]

RECURSIVE GateLayers(_, _, _)
GateLayers(layer_idx, layers, n) ==
    IF layer_idx >= layers THEN <<>>
    ELSE (IF layer_idx % 2 = 0 THEN HadamardLayer(n) ELSE AddCnotLayer(n))
         \o GateLayers(layer_idx + 1, layers, n)

MeasureAll(n) == [i \in 1..n |-> <<"measure", i - 1, i - 1>>]

BuildCircuit(c) ==
    [c EXCEPT !.gates = c.gates \o GateLayers(0, c.layers, c.qubit_count)
                                \o MeasureAll(c.qubit_count)]

CircuitWidthQubitsOnly(c) == c.qr

\* QuantumCircuit.width(): qubits plus classical bits
CircuitWidth(c) == c.qr + c.cr

\* QuantumCircuit.depth(): longest chain of operations over the wires; wire
\* q is qubit q, wire qr + q is classical bit q
\* the operations gates[lo..hi] taken in order, lo <= hi
RECURSIVE DepthLoop(_, _, _, _, _)
DepthLoop(gates, lo, hi, level, nq) ==
    IF lo = hi
       THEN LET g == gates[lo]
                w1 == g[2]
                w2 == IF g[1] = "measure" THEN nq + g[3] ELSE g[3]
                top == IF level[w1] >= level[w2] THEN level[w1] ELSE level[w2]
            IN [level EXCEPT ![w1] = top + 1, ![w2] = top + 1]
    ELSE LET mid == (lo + hi) \div 2
             half == DepthLoop(gates, lo, mid, level, nq)
         IN IF DOMAIN half = DOMAIN level   \* the first half is done first
               THEN DepthLoop(gates, mid + 1, hi, half, nq)
            ELSE half

CircuitDepth(c) ==
    LET start == [w \in 0..(c.qr + c.cr - 1) |-> 0]
        level == IF c.gates = <<>> THEN start
                 ELSE DepthLoop(c.gates, 1, Len(c.gates), start, c.qr)
    IN CHOOSE m \in {level[w] : w \in DOMAIN level} :
           \A w \in DOMAIN level : level[w] <= m

\* QuantumCircuit.count_ops()[name]; names with no occurrence are absent
CountOps(c, name) == Cardinality({i \in 1..Len(c.gates) : c.gates[i][1] = name})

\* the orders in which a mapping of the three gate names may be iterated
CountOpsOrders ==
    {order \in [1..3 -> {"cx", "h", "measure"}] :
       \A i, j \in 1..3 : order[i] = order[j] => i = j}

\* the order count_ops() lists them in when the counts are tied
CountOpsOrder == <<"h", "cx", "measure">>

\* dict(self.circuit.count_ops()): the (name, count) items in iteration order
CountOpsItems(c, order) ==
    LET Occurs(name) == CountOps(c, name) > 0
    IN [i \in 1..Len(SelectSeq(order, Occurs)) |->
          <<SelectSeq(order, Occurs)[i], CountOps(c, SelectSeq(order, Occurs)[i])>>]

\* the place of a gate name among the sorted keys
KeyRank(name) ==
    CASE name = "cx" -> 1
      [] name = "h" -> 2
      [] name = "measure" -> 3

SortKeysInsertionOrder(items) == items

\* sort_keys=True: the items by ascending key
SortKeys(items) ==
    [i \in 1..Len(items) |->
       items[CHOOSE j \in 1..Len(items) :
               Cardinality({k \in 1..Len(items) :
                              KeyRank(items[k][1]) < KeyRank(items[j][1])}) = i - 1]]

\* json.dumps(descriptor, sort_keys=True): the gate_counts members
GateCountMembersIn(items) ==
    [i \in 1..Len(items) |->
       Tok("gate_counts", SortKeys(items)[i][1], 0, SortKeys(items)[i][2], 0)]

GateCountMembers(c) == GateCountMembersIn(CountOpsItems(c, CountOpsOrder))

PositionMembers(c) ==
    [i \in 1..Len(c.hex_structure.qubit_positions) |->
        Tok("structure", "qubit_positions", i - 1,
            c.hex_structure.qubit_positions[i][1],
            c.hex_structure.qubit_positions[i][2])]

\* get_circuit_descriptor() when count_ops() iterates in the given order
GetCircuitDescriptorIn(c, order) ==
    <<Sym("{"),
      Tok("circuit_depth", "", 0, CircuitDepth(c), 0),
      Tok("circuit_width", "", 0, CircuitWidth(c), 0)>>
    \o GateCountMembersIn(CountOpsItems(c, order))
    \o <<Tok("layers", "", 0, c.layers, 0),
         Tok("qubit_count", "", 0, c.qubit_count, 0),
         Tok("structure", "connections", 0, 0, 0)>>
    \o PositionMembers(c)
    \o <<Sym("}")>>

GetCircuitDescriptor(c) == GetCircuitDescriptorIn(c, CountOpsOrder)

\* -------------------------------------------------------------------- JSON
IsDigit(ch) == ch[1] = "digit"

IsMember(ch) == ch[1] \notin {"{", "}", "[", "]", "quote", "null", "digit", "garbage", "sha256"}

\* json.loads(text): the kind of value parsed and the names it holds (the
\* keys of an object, the elements of an array, the words of a string), or
\* kind "JSONDecodeError"
JsonLoads(text) ==
    LET n == Len(text)
        names == {text[i][1] : i \in 2..(n - 1)}
        members == \A i \in 2..(n - 1) : IsMember(text[i])
    IN IF n >= 2 /\ text[1] = Sym("{") /\ text[n] = Sym("}") /\ members
          THEN [kind |-> "object", names |-> names]
       ELSE IF n >= 2 /\ text[1] = Sym("[") /\ text[n] = Sym("]") /\ members
          THEN [kind |-> "array", names |-> names]
       ELSE IF n >= 2 /\ text[1] = Sym("quote") /\ text[n] = Sym("quote") /\ members
          THEN [kind |-> "string", names |-> names]
       ELSE IF n = 1 /\ text[1] = Sym("null")
          THEN [kind |-> "null", names |-> {}]
       ELSE IF n >= 1 /\ (\A i \in 1..n : IsDigit(text[i])) /\ (n = 1 \/ text[1] # Digit(0))
          THEN [kind |-> "number", names |-> {}]
       ELSE [kind |-> "JSONDecodeError", names |-> {}]

\* Python's  name in value : membership for dict, list and str, TypeError for
\* the values that are no container
SupportsIn(value) == value.kind \in {"object", "array", "string"}

Contains(value, name) == name \in value.names

\* ----------------------------------------------------------------- backend
Zeros(n) == [i \in 1..n |-> Digit(0)]

\* the most common bitstring a backend run may report for n classical bits
BackendOutcomes(n, free) ==
    LET m == IF n <= free THEN n ELSE free
    IN {head \o Zeros(n - m) : head \in [1..m -> {Digit(0), Digit(1)}]}

\* ------------------------------------------------------------ proof mapping
NoProof == [k \in {} |-> 0]

Has(p, key) == key \in DOMAIN p

ProofInputBitsFirst(circuit_descriptor, most_common) == most_common \o circuit_descriptor

\* the hash input built by simulate() line 192 and simulate_quantum_proof line 155
ProofInput(circuit_descriptor, most_common) == circuit_descriptor \o most_common

\* floor(sqrt(q / 3)) by counting up, as int(math.sqrt(qubit_count / 3))
RECURSIVE IntSqrtThird(_, _)
IntSqrtThird(q, k) == IF 3 * (k + 1) * (k + 1) > q THEN k ELSE IntSqrtThird(q, k + 1)

Max(a, b) == IF a >= b THEN a ELSE b

EstimatedLayersNoClamp(qubit_count, difficulty_level) ==
    IntSqrtThird(qubit_count, 0) + difficulty_level

\* hex_hadamard_cnot.py line 218
EstimatedLayers(qubit_count, difficulty_level) ==
    Max(1, IntSqrtThird(qubit_count, 0) + difficulty_level)

\* simulator.py line 144
SimEstimatedLayers(qubit_count, difficulty_level) ==
    Max(1, IntSqrtThird(qubit_count, 0) + difficulty_level)

\* The circuits the generators build and their descriptors depend on layers
\* alone; they are computed once, for every layers the bounded requests reach.
TableLayers == EstimatedLayers(MaxBudget, MaxLevel)

RECURSIVE BuiltCircuits(_)
BuiltCircuits(n) ==
    IF n = 0 THEN <<>> ELSE Append(BuiltCircuits(n - 1), BuildCircuit(NewCircuit(n)))

CircuitTable == BuiltCircuits(TableLayers)

RECURSIVE BuiltDescriptors(_)
BuiltDescriptors(n) ==
    IF n = 0 THEN <<>>
    ELSE Append(BuiltDescriptors(n - 1), GetCircuitDescriptor(CircuitTable[n]))

DescriptorTable == BuiltDescriptors(TableLayers)

\* circuit = HexagonalQuantumCircuit(layers=estimated_layers, qubits_per_side=1)
\* circuit.build_circuit()
BuiltCircuit(layers) ==
    IF layers \in 1..TableLayers THEN CircuitTable[layers]
    ELSE BuildCircuit(NewCircuit(layers))

\* circuit.get_circuit_descriptor()
DescriptorOf(c) ==
    IF c.layers \in 1..TableLayers /\ c = CircuitTable[c.layers]
       THEN DescriptorTable[c.layers]
    ELSE GetCircuitDescriptor(c)

\* HexagonalQuantumCircuit.simulate(): the result mapping without 'counts'
CircuitSimulate(c, most_common) ==
    [measurement_results |-> BitsOfStr(most_common),
     proof_artifact |-> Sha256Hex(ProofInput(DescriptorOf(c), most_common)),
     circuit_descriptor |-> DescriptorOf(c)]

QuantumProofOfBudget(c, simulation_result, qubit_count, difficulty_level, time) ==
    [circuit_descriptor |-> simulation_result.circuit_descriptor,
     measurement_results |-> simulation_result.measurement_results,
     proof_artifact |-> simulation_result.proof_artifact,
     qubit_count |-> qubit_count,
     timestamp |-> time,
     difficulty_level |-> difficulty_level]

\* the mapping returned by generate_quantum_proof(qubit_count, difficulty_level)
QuantumProofOf(c, simulation_result, qubit_count, difficulty_level, time) ==
    [circuit_descriptor |-> simulation_result.circuit_descriptor,
     measurement_results |-> simulation_result.measurement_results,
     proof_artifact |-> simulation_result.proof_artifact,
     qubit_count |-> c.qubit_count,
     timestamp |-> time,
     difficulty_level |-> difficulty_level]

\* QuantumSimulator.simulate_circuit: a failed backend run gives the mock
\* all-zero counts
SimulateCircuit(c, backend_ok, most_common) ==
    LET mc == IF backend_ok THEN most_common ELSE Zeros(c.qr)
    IN [most_common |-> mc, measurement_results |-> BitsOfStr(mc)]

\* the mapping returned by simulate_quantum_proof(qubit_count, difficulty_level)
SimulatedProofOf(c, simulation_result, qubit_count, difficulty_level, time, noise) ==
    [circuit_descriptor |-> DescriptorOf(c),
     measurement_results |-> simulation_result.measurement_results,
     proof_artifact |->
         Sha256Hex(ProofInput(DescriptorOf(c), simulation_result.most_common)),
     qubit_count |-> c.qubit_count,
     timestamp |-> time,
     difficulty_level |-> difficulty_level,
     simulation_metadata |->
         [shots |-> 1024, noise_level |-> noise, backend |-> "qasm_simulator"]]

\* ------------------------------------------- QuantumSimulator.verify_simulation
\* proof.get(key): None, like the empty str and the empty list, is falsy
Get(p, key) == IF Has(p, key) THEN p[key] ELSE <<>>

Truthy(x) == x # <<>>

Ret(value, place) == [ret |-> value, at |-> place]

\* line 190: not all([circuit_descriptor, measurement_results, proof_artifact])
NotAllPresent(circuit_descriptor, measurement_results, proof_artifact) ==
    ~(Truthy(circuit_descriptor) /\ Truthy(measurement_results) /\ Truthy(proof_artifact))

\* lines 194-195
ExpectedArtifact(circuit_descriptor, measurement_results) ==
    Sha256Hex(circuit_descriptor \o JoinStr(measurement_results))

ArtifactDiffersNever(expected_artifact, proof_artifact) == FALSE

\* line 197
ArtifactDiffers(expected_artifact, proof_artifact) == expected_artifact # proof_artifact

LengthDiffersNever(measurement_results, qubit_count) == FALSE

\* line 208
LengthDiffers(measurement_results, qubit_count) == Len(measurement_results) # qubit_count

\* lines 212-214
BadBit(measurement_results) ==
    \E i \in 1..Len(measurement_results) : measurement_results[i] \notin {0, 1}

\* the value returned, or the exception raised, and the check that ended the call
VerifySimulation(p) ==
    LET circuit_descriptor == Get(p, "circuit_descriptor")
        measurement_results == Get(p, "measurement_results")
        proof_artifact == Get(p, "proof_artifact")
        descriptor == JsonLoads(circuit_descriptor)
    IN IF NotAllPresent(circuit_descriptor, measurement_results, proof_artifact)
          THEN Ret("False", "presence")
       ELSE IF ArtifactDiffers(ExpectedArtifact(circuit_descriptor, measurement_results),
                               proof_artifact)
          THEN Ret("False", "artifact")
       ELSE IF descriptor.kind = "JSONDecodeError"
          THEN Ret("False", "json")
       ELSE IF ~SupportsIn(descriptor)
          THEN Ret("TypeError", "keys")
       ELSE IF ~Contains(descriptor, "qubit_count") \/ ~Contains(descriptor, "layers")
          THEN Ret("False", "keys")
       ELSE IF ~Has(p, "qubit_count")
          THEN Ret("KeyError", "length")
       ELSE IF LengthDiffers(measurement_results, p.qubit_count)
          THEN Ret("False", "length")
       ELSE IF BadBit(measurement_results)
          THEN Ret("False", "bit")
       ELSE Ret("True", "end")

\* ------------------------ QuantumProofVerifier.verify_proof (spec section 4.6)
\* step 1
MissingFields(p) ==
    \/ ~Truthy(Get(p, "circuit_descriptor"))
    \/ ~Truthy(Get(p, "measurement_results"))
    \/ ~Truthy(Get(p, "proof_artifact"))
    \/ ~Has(p, "qubit_count")

\* step 2
MalformedDescriptor(p) ==
    LET descriptor == JsonLoads(p.circuit_descriptor)
    IN \/ descriptor.kind # "object"
       \/ ~Contains(descriptor, "qubit_count")
       \/ ~Contains(descriptor, "layers")

ReplayDetectedStale(store, snapshot, proof_artifact) == proof_artifact \in snapshot

\* step 6: the membership test of the check-and-insert, on the store as it is
\* when the step runs (snapshot: the store as the call found it on entry)
ReplayDetected(store, snapshot, proof_artifact) == proof_artifact \in store

\* steps 1-5: the rejection reason, or "Valid"
Validate(p) ==
    IF MissingFields(p) THEN "MissingFields"
    ELSE IF MalformedDescriptor(p) THEN "MalformedDescriptor"
    ELSE IF Len(p.measurement_results) # p.qubit_count THEN "LengthMismatch"
    ELSE IF BadBit(p.measurement_results) THEN "InvalidBit"
    ELSE IF ExpectedArtifact(p.circuit_descriptor, p.measurement_results) # p.proof_artifact
        THEN "ArtifactMismatch"
    ELSE "Valid"

\* the whole call as one atomic step: the result and the store it leaves
VerifyProof(p, store) ==
    LET reason == Validate(p)
    IN IF reason # "Valid" THEN [result |-> reason, store |-> store]
       ELSE IF ReplayDetected(store, store, p.proof_artifact)
          THEN [result |-> "ReplayDetected", store |-> store]
       ELSE [result |-> "Accepted", store |-> store \cup {p.proof_artifact}]

\* ------------------------------------------------- proofs made by an attacker
\* tests/quantum_tests.py line 170
TestDescriptor ==
    <<Sym("{"), Tok("qubit_count", "", 0, 5, 0), Tok("layers", "", 0, 2, 0),
      Tok("circuit_width", "", 0, 10, 0), Tok("circuit_depth", "", 0, 5, 0), Sym("}")>>

\* tests/quantum_tests.py line 131
DescriptorWithoutLayers == <<Sym("{"), Tok("qubit_count", "", 0, 5, 0), Sym("}")>>

CraftedDescriptors ==
    {TestDescriptor, DescriptorWithoutLayers,
     <<>>,                                                       \* ""
     <<Sym("garbage")>>,                                         \* no JSON
     <<Digit(5)>>,                                               \* 5
     <<Sym("null")>>,                                            \* null
     <<Sym("["), Sym("]")>>,                                     \* []
     <<Sym("quote"), Sym("qubit_count"), Sym("layers"), Sym("quote")>>}

RECURSIVE SeqsUpTo(_, _)
SeqsUpTo(S, n) ==
    IF n = 0 THEN {<<>>}
    ELSE LET shorter == SeqsUpTo(S, n - 1)
         IN shorter \cup {Append(s, x) : s \in shorter, x \in S}

CraftedBits == SeqsUpTo({0, 1, 2}, MaxCraftQ)

ArtifactKinds == {"correct", "invalid", "empty"}

ProofFields == {"circuit_descriptor", "measurement_results", "proof_artifact", "qubit_count"}

CraftedProof(d, bits, art, q, drop) ==
    LET full == [circuit_descriptor |-> d,
                 measurement_results |-> bits,
                 proof_artifact |-> CASE art = "correct" -> ExpectedArtifact(d, bits)
                                      [] art = "invalid" -> <<Sym("garbage")>>
                                      [] art = "empty" -> <<>>,
                 qubit_count |-> q,
                 difficulty_level |-> 1]
    IN [k \in DOMAIN full \ {drop} |-> full[k]]

\* ------------------------------------------------------------------- state
VARIABLES
    circ,      \* the HexagonalQuantumCircuit object last constructed
    proof,     \* the proof mapping in hand
    origin,    \* how it was made: none, generated, simulated, flipped, crafted
    backend,   \* the last backend run: none, ok, mock (fallback counts), raised
    now,       \* time.time()
    out,       \* what the last verify_simulation call returned or raised
    vres,      \* what the last verify_proof call returned
    seen,      \* the verifier's store of accepted proof artifacts
    hist,      \* acceptances so far: how often per artifact, and the latest
    calls,     \* verify_proof calls made on the verifier
    tpc,       \* per thread: idle, validated, done
    tsnap,     \* per thread: the store as the call found it on entry
    tres,      \* per thread: the result of its verify_proof call
    req,       \* the (qubit_count, difficulty_level) asked of the mapping
    est,       \* estimated_layers as computed by each generator (-1: not yet)
    prev,      \* the request and result before this one
    desc       \* the descriptor last encoded, the text encoded before it for
               \* the same layers and build state, and how the two calls differed

vars == <<circ, proof, origin, backend, now, out, vres, seen, hist, calls,
          tpc, tsnap, tres, req, est, prev, desc>>

Threads == 1..NumThreads

NoCircuit == [k \in {} |-> 0]

NoResult == Ret("none", "none")

\* -1: not computed yet
NoEstimate == [generate |-> -1, simulate |-> -1]

NoRequest == [qubit_count |-> 0, difficulty_level |-> 0]

verifierVars == <<seen, hist, calls>>

threadVars == <<tpc, tsnap, tres>>

mapperVars == <<req, est, prev>>

\* no descriptor encoded yet
NoDescriptor ==
    [layers |-> -1, built |-> FALSE, at |-> -1, outcome |-> <<>>, items |-> <<>>,
     text |-> <<>>]

NoEncodings == [run |-> NoDescriptor, before |-> <<>>, varied |-> {}]

\* what the verifier in use has accepted so far
NoHistory == [accepted |-> NoProof, last |-> <<>>]

Count(h, a) == IF a \in DOMAIN h.accepted THEN h.accepted[a] ELSE 0

Record(h, p, result) ==
    IF result # "Accepted" THEN h
    ELSE LET a == p.proof_artifact
         IN [accepted |-> [x \in DOMAIN h.accepted \cup {a} |->
                             IF x = a THEN Count(h, a) + 1 ELSE h.accepted[x]],
             last |-> a]

Init ==
    /\ circ = NoCircuit
    /\ proof = NoProof
    /\ origin = "none"
    /\ backend = "none"
    /\ now = 0
    /\ out = NoResult
    /\ vres = "none"
    /\ seen = {}
    /\ hist = NoHistory
    /\ calls = 0
    /\ tpc = [t \in Threads |-> "idle"]
    /\ tsnap = [t \in Threads |-> {}]
    /\ tres = [t \in Threads |-> "none"]
    /\ req = NoRequest
    /\ est = NoEstimate
    /\ prev = NoProof
    /\ desc = NoEncodings

\* --------------------------------------------------------------- operations
\* time passes
Tick ==
    /\ now < MaxClock
    /\ now' = now + 1
    /\ UNCHANGED <<circ, proof, origin, backend, out, vres, verifierVars,
                   threadVars, mapperVars, desc>>

\* generate_quantum_proof(qubit_count, difficulty_level); an error of the
\* backend run inside circuit.simulate() propagates and no proof is returned
GenerateQuantumProof(maxBudget, maxLevel, free) ==
    /\ origin = "none"
    /\ \A t \in Threads : tpc[t] = "idle"
    /\ \E qubit_count \in 1..maxBudget, difficulty_level \in 0..maxLevel,
          backend_ok \in BOOLEAN :
        LET c == BuiltCircuit(EstimatedLayers(qubit_count, difficulty_level))
        IN /\ circ' = c
           /\ req' = [qubit_count |-> qubit_count, difficulty_level |-> difficulty_level]
           /\ IF backend_ok
                 THEN \E most_common \in BackendOutcomes(c.cr, free) :
                        /\ proof' = QuantumProofOf(c, CircuitSimulate(c, most_common),
                                                   qubit_count, difficulty_level, now)
                        /\ origin' = "generated"
                        /\ backend' = "ok"
                 ELSE /\ proof' = NoProof
                      /\ origin' = "none"
                      /\ backend' = "raised"
    /\ out' = NoResult
    /\ vres' = "none"
    /\ UNCHANGED <<now, verifierVars, threadVars, est, prev, desc>>

\* QuantumSimulator(noise_level=0.001).simulate_quantum_proof(qubit_count,
\* difficulty_level); noise_level is kept in thousandths
SimulateQuantumProof(maxBudget, maxLevel, free) ==
    /\ origin = "none"
    /\ \E qubit_count \in 1..maxBudget, difficulty_level \in 0..maxLevel,
          backend_ok \in BOOLEAN :
        LET c == BuiltCircuit(SimEstimatedLayers(qubit_count, difficulty_level))
        IN /\ circ' = c
           /\ req' = [qubit_count |-> qubit_count, difficulty_level |-> difficulty_level]
           /\ \E most_common \in BackendOutcomes(c.cr, free) :
                proof' = SimulatedProofOf(c, SimulateCircuit(c, backend_ok, most_common),
                                          qubit_count, difficulty_level, now, 1)
           /\ backend' = IF backend_ok THEN "ok" ELSE "mock"
    /\ origin' = "simulated"
    /\ out' = NoResult
    /\ vres' = "none"
    /\ UNCHANGED <<now, verifierVars, threadVars, est, prev, desc>>

\* tests/quantum_tests.py lines 102-103: one bit of a constructed proof is
\* flipped and proof_artifact is left as it was
FlipBit(indices) ==
    /\ origin \in {"generated", "simulated"}
    /\ \E i \in {j \in 1..Len(proof.measurement_results) : j \in indices} :
         proof' = [proof EXCEPT !.measurement_results[i] = 1 - @]
    /\ origin' = "flipped"
    /\ out' = NoResult
    /\ vres' = "none"
    /\ UNCHANGED <<circ, backend, now, verifierVars, threadVars, mapperVars, desc>>

\* a proof mapping written by hand, as in the tests' invalid and incomplete proofs
Craft ==
    /\ origin = "none"
    /\ \E d \in CraftedDescriptors, bits \in CraftedBits, art \in ArtifactKinds,
          q \in 1..MaxCraftQ, drop \in ProofFields \cup {"nothing"} :
         proof' = CraftedProof(d, bits, art, q, drop)
    /\ origin' = "crafted"
    /\ out' = NoResult
    /\ vres' = "none"
    /\ UNCHANGED <<circ, backend, now, verifierVars, threadVars, mapperVars, desc>>

\* simulator.verify_simulation(proof)
CallVerifySimulation ==
    /\ origin # "none"
    /\ out = NoResult
    /\ out' = VerifySimulation(proof)
    /\ UNCHANGED <<circ, proof, origin, backend, now, vres, verifierVars,
                   threadVars, mapperVars, desc>>

\* verifier = QuantumProofVerifier(); verifier.verify_proof(proof)
\* (tests/quantum_tests.py lines 91-92)
VerifyOnNewVerifier ==
    /\ origin # "none"
    /\ vres = "none"
    /\ LET r == VerifyProof(proof, {})
       IN /\ vres' = r.result
          /\ seen' = r.store
          /\ hist' = Record(NoHistory, proof, r.result)
    /\ calls' = 1
    /\ UNCHANGED <<circ, proof, origin, backend, now, out, threadVars, mapperVars, desc>>

\* verifier.verify_proof(proof) on the verifier in use
CallVerifyProof ==
    /\ origin # "none"
    /\ calls < MaxCalls
    /\ LET r == VerifyProof(proof, seen)
       IN /\ vres' = r.result
          /\ seen' = r.store
          /\ hist' = Record(hist, proof, r.result)
    /\ calls' = calls + 1
    /\ UNCHANGED <<circ, proof, origin, backend, now, out, threadVars, mapperVars, desc>>

\* the caller lets go of the proof; the verifier stays
Discard ==
    /\ origin # "none"
    /\ \A t \in Threads : tpc[t] = "idle"
    /\ circ' = NoCircuit
    /\ proof' = NoProof
    /\ origin' = "none"
    /\ backend' = "none"
    /\ out' = NoResult
    /\ vres' = "none"
    /\ req' = NoRequest
    /\ UNCHANGED <<now, verifierVars, threadVars, est, prev, desc>>

\* the end of one test: the proof and the verifier made for it are dropped
EndTest ==
    /\ origin # "none" \/ backend # "none"
    /\ circ' = NoCircuit
    /\ proof' = NoProof
    /\ origin' = "none"
    /\ backend' = "none"
    /\ out' = NoResult
    /\ vres' = "none"
    /\ seen' = {}
    /\ hist' = NoHistory
    /\ calls' = 0
    /\ req' = NoRequest
    /\ UNCHANGED <<now, threadVars, est, prev, desc>>

Next ==
    \/ Tick
    \/ GenerateQuantumProof(MaxBudget, MaxLevel, MaxFreeBits)
    \/ SimulateQuantumProof(MaxBudget, MaxLevel, MaxFreeBits)
    \/ FlipBit(Nat)
    \/ Craft
    \/ CallVerifySimulation
    \/ VerifyOnNewVerifier
    \/ EndTest

Spec == Init /\ [][Next]_vars

\* one verifier, many calls
NextReplay ==
    \/ GenerateQuantumProof(MaxBudget, MaxLevel, ReplayFreeBits)
    \/ FlipBit({1})
    \/ CallVerifyProof
    \/ Discard

SpecReplay == Init /\ [][NextReplay]_vars

\* ----------------------------------------- verify_proof called from threads
\* steps 1-5 of a call: no shared state is touched
ThreadValidate ==
    /\ origin # "none"
    /\ calls < MaxCalls
    /\ \E t \in Threads :
         /\ tpc[t] = "idle"
         /\ tpc' = [tpc EXCEPT ![t] = "validated"]
         /\ tres' = [tres EXCEPT ![t] = Validate(proof)]
         /\ tsnap' = [tsnap EXCEPT ![t] = seen]
    /\ calls' = calls + 1
    /\ UNCHANGED <<circ, proof, origin, backend, now, out, vres, seen, hist, mapperVars, desc>>

\* step 6 of a call: the check-and-insert on the store, one atomic step
ThreadCheckAndInsert ==
    \E t \in Threads :
      /\ tpc[t] = "validated"
      /\ LET result == IF tres[t] # "Valid" THEN tres[t]
                       ELSE IF ReplayDetected(seen, tsnap[t], proof.proof_artifact)
                          THEN "ReplayDetected"
                       ELSE "Accepted"
         IN /\ tres' = [tres EXCEPT ![t] = result]
            /\ seen' = IF result = "Accepted" THEN seen \cup {proof.proof_artifact} ELSE seen
            /\ hist' = Record(hist, proof, result)
      /\ tpc' = [tpc EXCEPT ![t] = "done"]
      /\ UNCHANGED <<circ, proof, origin, backend, now, out, vres, calls, tsnap, mapperVars, desc>>

\* every call has returned; the threads are free for the next proof
ThreadsReturn ==
    /\ \A t \in Threads : tpc[t] \in {"idle", "done"}
    /\ \E t \in Threads : tpc[t] = "done"
    /\ tpc' = [t \in Threads |-> "idle"]
    /\ tres' = [t \in Threads |-> "none"]
    /\ tsnap' = [t \in Threads |-> {}]
    /\ UNCHANGED <<circ, proof, origin, backend, now, out, vres, verifierVars, mapperVars, desc>>

NextConcurrent ==
    \/ GenerateQuantumProof(MaxBudget, MaxLevel, ReplayFreeBits)
    \/ ThreadValidate
    \/ ThreadCheckAndInsert
    \/ ThreadsReturn
    \/ Discard

SpecConcurrent == Init /\ [][NextConcurrent]_vars

\* ------------------------------------ the difficulty mapping and construction
Requests == [qubit_count : 1..MapMaxBudget, difficulty_level : 0..MapMaxLevel]

InitMapper ==
    /\ circ = NoCircuit
    /\ proof = NoProof
    /\ origin = "none"
    /\ backend = "none"
    /\ now = 0
    /\ out = NoResult
    /\ vres = "none"
    /\ seen = {}
    /\ hist = NoHistory
    /\ calls = 0
    /\ tpc = [t \in Threads |-> "idle"]
    /\ tsnap = [t \in Threads |-> {}]
    /\ tres = [t \in Threads |-> "none"]
    /\ req \in Requests
    /\ est = NoEstimate
    /\ prev = NoProof
    /\ desc = NoEncodings

proofVars == <<proof, origin, backend, now, out, vres>>

\* HexagonalQuantumCircuit(layers=layers, qubits_per_side=1)
Construct(maxLayers) ==
    /\ est = NoEstimate
    /\ prev = NoProof
    /\ \E layers \in 0..maxLayers : circ' = NewCircuit(layers)
    /\ UNCHANGED <<proofVars, verifierVars, threadVars, mapperVars, desc>>

\* hex_hadamard_cnot.py lines 218-221
MapGenerate ==
    /\ est.generate = -1
    /\ est' = [est EXCEPT !.generate = EstimatedLayers(req.qubit_count, req.difficulty_level)]
    /\ circ' = NewCircuit(est'.generate)
    /\ UNCHANGED <<proofVars, verifierVars, threadVars, req, prev, desc>>

\* simulator.py lines 144-147
MapSimulate ==
    /\ est.simulate = -1
    /\ est' = [est EXCEPT !.simulate = SimEstimatedLayers(req.qubit_count, req.difficulty_level)]
    /\ circ' = NewCircuit(est'.simulate)
    /\ UNCHANGED <<proofVars, verifierVars, threadVars, req, prev, desc>>

\* the next call, with other arguments
NextRequest ==
    /\ est.generate # -1
    /\ est.simulate # -1
    /\ prev' = [req |-> req, est |-> est]
    /\ req' \in Requests
    /\ est' = NoEstimate
    /\ circ' = NoCircuit
    /\ UNCHANGED <<proofVars, verifierVars, threadVars, desc>>

NextMapper ==
    \/ Construct(MaxLayers)
    \/ MapGenerate
    \/ MapSimulate
    \/ NextRequest

SpecMapper == InitMapper /\ [][NextMapper]_vars

\* ------------------------------------- circuits built and encoded directly
\* an encoding of circuit c made now: items is the gate tally as the call
\* iterated it, outcome the backend's bitstring when simulate() made the call
Encoding(c, text, outcome, items) ==
    [layers |-> c.layers, built |-> c.gates # <<>>, at |-> now,
     outcome |-> outcome, items |-> items, text |-> text]

Remember(e) ==
    IF desc.run.layers = e.layers /\ desc.run.built = e.built
       THEN [run |-> e,
             before |-> desc.run.text,
             varied |-> (IF desc.run.at # e.at THEN {"time"} ELSE {})
                        \cup (IF desc.run.outcome # e.outcome THEN {"outcome"} ELSE {})
                        \cup (IF desc.run.items # e.items THEN {"order"} ELSE {})]
    ELSE [run |-> e, before |-> <<>>, varied |-> {}]

\* circuit.build_circuit(), called once on a circuit
CallBuildCircuit ==
    /\ circ # NoCircuit
    /\ circ.gates = <<>>
    /\ circ' = BuildCircuit(circ)
    /\ UNCHANGED <<proofVars, verifierVars, threadVars, mapperVars, desc>>

\* circuit.get_circuit_descriptor() (tests/quantum_tests.py lines 28-29)
CallGetCircuitDescriptor ==
    /\ circ # NoCircuit
    /\ \E order \in CountOpsOrders :
         desc' = Remember(Encoding(circ, GetCircuitDescriptorIn(circ, order), <<>>,
                                   CountOpsItems(circ, order)))
    /\ UNCHANGED <<circ, proofVars, verifierVars, threadVars, mapperVars>>

\* circuit.simulate() on a built circuit (tests/quantum_tests.py lines 48-51):
\* the circuit_descriptor of its result (hex_hadamard_cnot.py line 191)
CallSimulate ==
    /\ circ # NoCircuit
    /\ circ.gates # <<>>
    /\ \E most_common \in BackendOutcomes(circ.qr, ReplayFreeBits), order \in CountOpsOrders :
         desc' = Remember(Encoding(circ, GetCircuitDescriptorIn(circ, order), most_common,
                                   CountOpsItems(circ, order)))
    /\ UNCHANGED <<circ, proofVars, verifierVars, threadVars, mapperVars>>

\* circuits of every size, built and encoded
NextCircuit ==
    \/ Construct(MaxLayers)
    \/ CallBuildCircuit
    \/ CallGetCircuitDescriptor

SpecCircuit == Init /\ [][NextCircuit]_vars

\* circuits encoded repeatedly, at different times, directly and by simulate()
NextEncoding ==
    \/ Tick
    \/ Construct(EncLayers)
    \/ CallBuildCircuit
    \/ CallGetCircuitDescriptor
    \/ CallSimulate

SpecEncoding == Init /\ [][NextEncoding]_vars

\* ------------------------------------------------------------------ claims
Constructed == origin \in {"generated", "simulated"}

Verified == out # NoResult

Judged == vres # "none"

AllBits(bits) == \A i \in 1..Len(bits) : bits[i] \in {0, 1}

C2_AtMostOneAccepted ==
    /\ \A t1, t2 \in Threads :
         (tres[t1] = "Accepted" /\ tres[t2] = "Accepted") => t1 = t2
    /\ \A a \in DOMAIN hist.accepted : hist.accepted[a] <= 1

\* two calls both entered while the store did not hold the artifact, and both
\* have returned
C2_Witness ==
    /\ \E t1, t2 \in Threads :
         /\ t1 # t2
         /\ tpc[t1] = "done" /\ tpc[t2] = "done"
         /\ tsnap[t1] = {} /\ tsnap[t2] = {}
         /\ tres[t1] = "Accepted"
         /\ tres[t2] = "ReplayDetected"

\* C3: round trip.  Every proof returned by generate_quantum_proof or
\* simulate_quantum_proof, whatever bitstring the backend reported, is accepted
\* unmodified: verify_simulation returns True, and a verifier that has not
\* seen it accepts it.
C3_RoundTrip ==
    Constructed =>
      /\ Verified => out = Ret("True", "end")
      /\ Judged => vres = "Accepted"

\* a simulated proof of 7 qubits with a 1 in the outcome passed both checks
C3_Witness ==
    /\ origin = "simulated"
    /\ backend = "ok"
    /\ circ.layers = 2
    /\ proof.measurement_results[2] = 1
    /\ out = Ret("True", "end")
    /\ vres = "Accepted"

\* C4: a constructed proof with one measurement bit flipped, at any index,
\* and proof_artifact left alone is rejected at the hash-binding check
\* (ArtifactMismatch); it is never accepted.
C4_FlippedBitRejected ==
    origin = "flipped" =>
      /\ Verified => out = Ret("False", "artifact")
      /\ Judged => vres = "ArtifactMismatch"

\* the last of seven bits, which the backend left 0, was flipped
C4_Witness ==
    /\ origin = "flipped"
    /\ Len(proof.measurement_results) = 7
    /\ proof.measurement_results[7] = 1
    /\ out = Ret("False", "artifact")
    /\ vres = "ArtifactMismatch"

LengthOff ==
    /\ origin # "none"
    /\ Has(proof, "qubit_count")
    /\ Has(proof, "measurement_results")
    /\ Len(proof.measurement_results) # proof.qubit_count

HashCorrect ==
    /\ Has(proof, "proof_artifact")
    /\ proof.proof_artifact =
         ExpectedArtifact(Get(proof, "circuit_descriptor"), proof.measurement_results)

AnyFieldMissing ==
    /\ origin # "none"
    /\ MissingFields(proof)

\* C6 as claimed: a proof in which circuit_descriptor, measurement_results,
\* proof_artifact or qubit_count is absent or empty is rejected by the
\* presence check, the first step, before any hash is computed.
C6_MissingFieldsFirst ==
    AnyFieldMissing => (Verified => out = Ret("False", "presence"))

\* C7 as claimed: verification ends with a definite accept or reject for
\* every proof mapping; no call ends in an exception.
C7_DefiniteResult ==
    Verified => out.ret \in {"True", "False"}

\* C8: the circuit constructed for layers >= 1 has 1 + 3*(layers-1)*layers
\* qubits, the one for layers = 0 has 1, and its quantum register has exactly
\* that many qubits.
C8_QubitCount ==
    Has(circ, "layers") =>
      /\ circ.layers >= 1 => circ.qubit_count = 1 + 3 * (circ.layers - 1) * circ.layers
      /\ circ.layers = 0 => circ.qubit_count = 1
      /\ circ.qr = circ.qubit_count

\* a circuit of three layers was constructed
C8_Witness ==
    /\ Has(circ, "layers")
    /\ circ.layers = 3
    /\ circ.qubit_count = 19
    /\ circ.qr = 19

\* floor(sqrt(q / 3)) = k
IsFloorSqrtThird(q, k) == k >= 0 /\ 3 * k * k <= q /\ q < 3 * (k + 1) * (k + 1)

Computed == est.generate # -1 /\ est.simulate # -1

\* C9: the difficulty mapping is max(1, floor(sqrt(qubit_budget / 3)) +
\* difficulty_level): at least 1, non-decreasing in both inputs, 4 for
\* (20, 2), and the same in generate_quantum_proof and simulate_quantum_proof.
C9_DifficultyMapping ==
    /\ est.generate # -1 =>
         /\ est.generate >= 1
         /\ \E k \in 0..req.qubit_count :
              /\ IsFloorSqrtThird(req.qubit_count, k)
              /\ est.generate = IF k + req.difficulty_level >= 1
                                   THEN k + req.difficulty_level ELSE 1
         /\ (req.qubit_count = 20 /\ req.difficulty_level = 2) => est.generate = 4
         /\ (/\ prev # NoProof
             /\ prev.req.qubit_count <= req.qubit_count
             /\ prev.req.difficulty_level <= req.difficulty_level)
            => prev.est.generate <= est.generate
    /\ Computed => est.generate = est.simulate

\* the mapping was applied to (20, 2) after a smaller request
C9_Witness ==
    /\ req = [qubit_count |-> 20, difficulty_level |-> 2]
    /\ est = [generate |-> 4, simulate |-> 4]
    /\ prev # NoProof
    /\ prev.req = [qubit_count |-> 2, difficulty_level |-> 0]
    /\ prev.est.generate = 1

\* C10: every generated proof is well-formed: qubit_count is the lattice count
\* of the layers actually used, not the budget asked for, measurement_results
\* has exactly qubit_count entries, and every entry is 0 or 1.
C10_WellFormed ==
    Constructed =>
      /\ circ.layers >= 1
      /\ proof.qubit_count = 1 + 3 * (circ.layers - 1) * circ.layers
      /\ proof.qubit_count = Len(circ.hex_structure.qubit_positions)
      /\ Len(proof.measurement_results) = proof.qubit_count
      /\ AllBits(proof.measurement_results)

\* a proof of 7 qubits was generated for a budget of 3
C10_Witness ==
    /\ origin = "generated"
    /\ req.qubit_count = 3
    /\ proof.qubit_count = 7
    /\ Len(proof.measurement_results) = 7

\* the values the descriptor text holds under a key (and sub-key)
MemberValues(text, kind, sub) ==
    {text[i][4] : i \in {j \in 1..Len(text) : text[j][1] = kind /\ text[j][2] = sub}}

\* parsed[key] for a key held once
Member(text, kind) == CHOOSE v \in MemberValues(text, kind, "") : TRUE

\* the tally of one gate name; a name gate_counts does not hold has none
GateCount(text, name) ==
    LET v == MemberValues(text, "gate_counts", name)
    IN IF v = {} THEN 0 ELSE CHOOSE x \in v : TRUE

CeilHalf(n) == (n + 1) \div 2

FloorHalf(n) == n \div 2

\* gates emitted before gate layer i
LayerOffset(q, i) == q * CeilHalf(i) + (q - 1) * FloorHalf(i)

EncodedBuilt == desc.run.built

IsBuilt == circ # NoCircuit /\ circ.gates # <<>>

C12_WidthDepth ==
    EncodedBuilt =>
      /\ Member(desc.run.text, "circuit_width") = Member(desc.run.text, "qubit_count")
      /\ Member(desc.run.text, "circuit_depth") = desc.run.layers

\* the longest chain of operations in the circuit built for layers gate
\* layers on q qubits: the first chain of pairs is sequential, each later
\* Hadamard layer adds one step and each later chain two, the measurement one
LongestChain(q, layers) ==
    IF layers <= 1 THEN layers + 1
    ELSE q + CeilHalf(layers - 2) + 2 * FloorHalf(layers - 2) + 1

\* C12 amended: in the descriptor of a built circuit circuit_width is twice
\* qubit_count (the qubits and as many classical bits) and circuit_depth is
\* the longest chain of operations, the final measurement included; it is
\* layers + 1 up to one layer and more than layers from two layers on.
C12_WidthDepthAmended ==
    EncodedBuilt =>
      LET q == Member(desc.run.text, "qubit_count")
          layers == desc.run.layers
      IN /\ Member(desc.run.text, "circuit_width") = 2 * q
         /\ Member(desc.run.text, "circuit_depth") = LongestChain(q, layers)
         /\ Member(desc.run.text, "circuit_depth") > layers

\* a built circuit of three layers was encoded: width 38, depth 21
C12_Witness ==
    /\ EncodedBuilt
    /\ desc.run.layers = 3
    /\ Member(desc.run.text, "qubit_count") = 19
    /\ Member(desc.run.text, "circuit_width") = 38
    /\ Member(desc.run.text, "circuit_depth") = 21

\* C13: descriptor encoding is deterministic.  Two encodings of circuits with
\* the same layers, both built or both not, are the same text, whatever the
\* time of the call, the measurement outcome of the run that made it and the
\* order in which the gate tally was iterated.
C13_Deterministic ==
    desc.before # <<>> => desc.before = desc.run.text

\* a built circuit of one layer was encoded twice, the calls differing in
\* time, outcome and iteration order
C13_Witness ==
    /\ desc.before # <<>>
    /\ desc.run.layers = 1
    /\ desc.run.built
    /\ desc.varied = {"time", "outcome", "order"}
    /\ desc.before = desc.run.text

BackendFailed == backend \in {"mock", "raised"}

\* C14 as claimed: when the backend fails during proof generation the call
\* ends in the backend-unavailable condition and leaves no proof; no proof
\* from a failed backend run passes verify_simulation or is accepted.
C14_BackendUnavailable ==
    BackendFailed =>
      /\ backend = "raised"
      /\ proof = NoProof
      /\ out # Ret("True", "end")
      /\ vres # "Accepted"

\* the indices that qubit_positions maps
PositionIndices(c) == {i - 1 : i \in DOMAIN c.hex_structure.qubit_positions}

\* qubit_positions[index]
PositionAt(c, index) == c.hex_structure.qubit_positions[index + 1]

\* the index at which the rings before ring layer end and ring layer starts
RingStart(layer) == 1 + 3 * (layer - 1) * layer

\* C15: the lattice of a constructed circuit maps exactly the indices
\* 0..qubit_count-1, index 0 to the centre (0,0), and the position pos of
\* side side of ring layer to index RingStart(layer) + side*layer + pos (ring
\* by ring, side by side, position by position); the number of positions
\* emitted is the qubit_count of the closed formula.
C15_DenseLattice ==
    circ # NoCircuit =>
      /\ PositionIndices(circ) = 0..(circ.qubit_count - 1)
      /\ Cardinality(PositionIndices(circ)) = CalculateQubitCount(circ.layers)
      /\ PositionAt(circ, 0) = <<0, 0>>
      /\ \A layer \in 1..(circ.layers - 1), side \in 0..5 : \A pos \in 0..(layer - 1) :
           PositionAt(circ, RingStart(layer) + side * layer + pos)
             = HexPosition(layer, side, pos)

\* a lattice of three layers: 19 positions, ring 2 from index 7 to index 18
C15_Witness ==
    /\ circ # NoCircuit
    /\ circ.layers = 3
    /\ PositionIndices(circ) = 0..18
    /\ PositionAt(circ, 0) = <<0, 0>>
    /\ PositionAt(circ, 7) = <<4, 0>>
    /\ PositionAt(circ, 18) = <<1, -3>>

====
